---- MODULE Spec2Model ----
(***************************************************************************)
(* The bounded-step Google Maps agent of mcp_servers/google_map_tool_async *)
(* (GoogleMapsBrowser, GoogleMapsAgent, run_google_maps_task_api) as a     *)
(* state machine (Spec); GoogleMapsAgent.act called on its own (ActSpec);  *)
(* _parse_json_output on the text of a reply (ParseSpec);                  *)
(* generate_google_maps_url of mcp_servers/google_map_url_tool (UrlSpec);  *)
(* run_task called again on the agent it has returned to (RerunSpec); and  *)
(* one run under weak fairness of its steps (LiveSpec).                    *)
(*                                                                         *)
(* Text.  A Python string is a sequence of chunks; a chunk is a maximal    *)
(* run of word characters (\w+), one punctuation character, or a literal   *)
(* piece of an f-string.  strip(), lower(), the two regular expressions of *)
(* act and the substring tests of run_task are computed on the chunks.     *)
(*                                                                         *)
(* Values.  A Python value is a tagged record: [t |-> "bool", v |-> TRUE], *)
(* [t |-> "int", v |-> 0], [t |-> "str", v |-> <<chunks>>],                *)
(* [t |-> "list", v |-> <<titles>>], [t |-> "none"], and a raised          *)
(* exception [t |-> "exc", v |-> <<chunks>>].                              *)
(***************************************************************************)
EXTENDS Integers, Sequences, FiniteSets, TLC

\* ------------------------------------------------------------------ bounds

\* The step budget of run_task.
MAX_STEPS == 15

\* In one run the oracle gives at most MaxFree replies that are neither the
\* filler reply nor a reply that ends the run.
MaxFree == 1

\* ------------------------------------------------------------------- text

Punct == {"(", ")", "'", "\"", " ", "\n", ",", ":", "#", "{", "}", "[", "]"}

\* The whitespace str.strip() and the \s of a regular expression take.
White == {" ", "\n"}

\* Chunks that are not a run of word characters.
NonWord == Punct \cup {"bus stop", "July 2010", "https://maps.example/x", "-1"}

IsWord(c) == c \notin NonWord

\* str.lower() on one chunk: the chunks with an upper-case letter.
LowerChunk(c) ==
    CASE c = "STOP" -> "stop"
      [] c = "Stop" -> "stop"
      [] c = "DONE" -> "done"
      [] c = "Exit" -> "exit"
      [] c = "Final_Answer" -> "final_answer"
      [] c = "FINAL_ANSWER" -> "final_answer"
      [] c = "Bus Stop Cafe" -> "bus stop cafe"
      [] c = "Lincoln Tunnel" -> "lincoln tunnel"
      [] c = "July 2010" -> "july 2010"
      [] c = "Invalid action: " -> "invalid action: "
      [] c = "Task completed" -> "task completed"
      [] c = "Clicked ID: " -> "clicked id: "
      [] c = "Selected historical date: " -> "selected historical date: "
      [] c = "Searched text: " -> "searched text: "
      [] c = "Clicked marker #" -> "clicked marker #"
      [] c = "Invalid argument for click_marker: " -> "invalid argument for click_marker: "
      [] c = "Action " -> "action "
      [] c = "Found " -> "found "
      [] c = "Entered street view" -> "entered street view"
      [] c = "Failed to enter street view" -> "failed to enter street view"
      [] c = "Executed action: " -> "executed action: "
      [] c = "True" -> "true"
      [] c = "False" -> "false"
      [] c = "None" -> "none"
      [] c = "Page.goto: Timeout 60000ms exceeded." -> "page.goto: timeout 60000ms exceeded."
      [] OTHER -> c

Lower(s) == [i \in DOMAIN s |-> LowerChunk(s[i])]

\* The lower-case chunks that have "stop" (resp. "done") inside them.
ChunksWith(sub) ==
    CASE sub = "stop" -> {"stop", "stop_now", "bus stop", "bus stop cafe"}
      [] sub = "done" -> {"done", "done_btn"}
      [] OTHER -> {}

\* Python's `sub in s` on a lower-cased string, sub a run of word characters.
Contains(s, sub) == \E i \in DOMAIN s : s[i] \in ChunksWith(sub)

RECURSIVE LStrip(_)
LStrip(s) == IF s # <<>> /\ Head(s) \in White THEN LStrip(Tail(s)) ELSE s

RECURSIVE RStrip(_)
RStrip(s) ==
    IF s # <<>> /\ s[Len(s)] \in White
    THEN RStrip(SubSeq(s, 1, Len(s) - 1))
    ELSE s

\* str.strip()
Strip(s) == RStrip(LStrip(s))

\* int(s) for the digit-only chunks, and str(n) back.
DigitVal == ("0" :> 0) @@ ("1" :> 1) @@ ("2" :> 2) @@ ("2014" :> 2014)

IsDigit(s) == Len(s) = 1 /\ s[1] \in DOMAIN DigitVal

\* int(s) also takes a sign.
IntVal == DigitVal @@ ("-1" :> (0 - 1))

IsIntLike(s) == Len(s) = 1 /\ s[1] \in DOMAIN IntVal

IntStr(n) == CHOOSE c \in DOMAIN IntVal : IntVal[c] = n

\* --------------------------------------------------------------- values

VNone == [t |-> "none"]
VBool(b) == [t |-> "bool", v |-> b]
VInt(n) == [t |-> "int", v |-> n]
VStr(s) == [t |-> "str", v |-> s]
VList(l) == [t |-> "list", v |-> l]
VExc(m) == [t |-> "exc", v |-> m]

\* Python truthiness of a value.
Truthy(x) ==
    CASE x.t = "bool" -> x.v
      [] x.t = "int" -> x.v # 0
      [] x.t = "str" -> x.v # <<>>
      [] x.t = "list" -> x.v # <<>>
      [] OTHER -> FALSE

\* `x is False`, `x is True`
IsFalse(x) == x.t = "bool" /\ ~x.v

IsTrue(x) == x.t = "bool" /\ x.v

\* The text an f-string renders for a value.
Format(x) ==
    CASE x.t = "bool" -> IF x.v THEN <<"True">> ELSE <<"False">>
      [] x.t = "int" -> <<IntStr(x.v)>>
      [] x.t = "str" -> x.v
      [] x.t = "list" -> <<"[">> \o x.v \o <<"]">>
      [] OTHER -> <<"None">>

\* ------------------------------------------------------ action vocabulary

\* The registry act checks names against.
GOOGLE_MAPS_ACTIONS ==
    {"click_id", "enter_street_view", "street_view_move_forward",
     "street_view_move_backward", "street_view_turn_left",
     "street_view_turn_right", "show_historical_dates",
     "select_historical_date", "back", "stop", "find_text_on_page",
     "click_blank_area", "click_marker", "flip_view", "move_left",
     "move_right"}

\* The names the catalog sent to the oracle advertises.
GOOGLE_MAPS_ACTIONS_PROMPT ==
    {"click_id", "enter_street_view", "street_view_move_forward",
     "street_view_move_backward", "street_view_turn_left",
     "street_view_turn_right", "show_historical_dates",
     "select_historical_date", "back", "stop", "get_url",
     "find_text_on_page", "click_blank_area", "click_marker", "flip_view",
     "move_left", "move_right"}

\* The public methods of GoogleMapsBrowser.
BrowserMethods ==
    GOOGLE_MAPS_ACTIONS \cup
    {"init", "wait_for_load", "visit_page", "scroll_up", "scroll_down",
     "get_url", "close"}

\* -------------------------------------------------------------- browser
\* The browser is [page, heading, loc]: page is "none" before init, "open"
\* after it and "closed" after close; heading is the street-view heading in
\* degrees; loc is "start" when the page shows the start URL, "previous"
\* when it shows the entry page.go_back went to.  A method takes
\* the browser and what the page answers, and gives its return value (or the
\* exception it raises), the browser after it, and the GoogleMapsBrowser
\* methods called, in call order.

StartUrl == <<"https://maps.example/x">>

NewBrowser == [page |-> "none", heading |-> 0, loc |-> "blank"]

Ret(res, b, calls) == [res |-> res, b |-> b, calls |-> calls]

\* What the page can answer to enter_street_view: the button was found and
\* clicked, an exception was caught, or the list of visible marker titles.
SvOutcomes ==
    {VBool(TRUE), VBool(FALSE), VList(<<>>), VList(<<"Lincoln Tunnel">>),
     VList(<<"Bus Stop Cafe">>)}

\* What the page can answer to show_historical_dates.
DateOutcomes == {VBool(FALSE), VList(<<>>), VList(<<"July 2010">>)}

\* visit_page: nothing without a page; page.goto may raise, and does on a
\* closed page.
visit_page(b, url, raises) ==
    IF b.page = "none" THEN Ret(VNone, b, <<"visit_page">>)
    ELSE IF raises \/ b.page = "closed"
    THEN Ret(VExc(<<"Page.goto: Timeout 60000ms exceeded.">>), b,
             <<"visit_page">>)
    ELSE Ret(VNone, [b EXCEPT !.loc = IF url = StartUrl THEN "start" ELSE "other"],
             <<"visit_page">>)

\* A method that clicks or presses once and reports whether that worked.
OneShot(name, b, ok, moves) ==
    IF b.page # "open" THEN Ret(VBool(FALSE), b, <<name>>)
    ELSE IF ok
    THEN Ret(VBool(TRUE), [b EXCEPT !.loc = IF moves THEN "other" ELSE @],
             <<name>>)
    ELSE Ret(VBool(FALSE), b, <<name>>)

click_id(b, ok) == OneShot("click_id", b, ok, TRUE)

street_view_move_forward(b, ok) ==
    OneShot("street_view_move_forward", b, ok, TRUE)

street_view_move_backward(b, ok) ==
    OneShot("street_view_move_backward", b, ok, TRUE)

find_text_on_page(b, ok) == OneShot("find_text_on_page", b, ok, FALSE)

click_blank_area(b, ok) == OneShot("click_blank_area", b, ok, FALSE)

\* Counterclockwise rotation by 90 degrees when the button was clicked.
street_view_turn_left(b, ok) ==
    IF b.page # "open" THEN Ret(VBool(FALSE), b, <<"street_view_turn_left">>)
    ELSE IF ok
    THEN Ret(VBool(TRUE), [b EXCEPT !.heading = (@ + 270) % 360],
             <<"street_view_turn_left">>)
    ELSE Ret(VBool(FALSE), b, <<"street_view_turn_left">>)

\* Clockwise rotation by 90 degrees when the button was clicked.
street_view_turn_right(b, ok) ==
    IF b.page # "open" THEN Ret(VBool(FALSE), b, <<"street_view_turn_right">>)
    ELSE IF ok
    THEN Ret(VBool(TRUE), [b EXCEPT !.heading = (@ + 90) % 360],
             <<"street_view_turn_right">>)
    ELSE Ret(VBool(FALSE), b, <<"street_view_turn_right">>)

enter_street_view(b, sv) ==
    IF b.page # "open" THEN Ret(VBool(FALSE), b, <<"enter_street_view">>)
    ELSE Ret(sv, [b EXCEPT !.loc = IF IsTrue(sv) THEN "other" ELSE @],
             <<"enter_street_view">>)

\* click_marker: the index is checked, the marker clicked, and street view
\* entered from the panel; True only when enter_street_view returned True.
click_marker(b, ok, sv) ==
    IF b.page # "open" THEN Ret(VBool(FALSE), b, <<"click_marker">>)
    ELSE IF ~ok THEN Ret(VBool(FALSE), b, <<"click_marker">>)
    ELSE LET r == enter_street_view([b EXCEPT !.loc = "other"], sv)
         IN  Ret(VBool(IsTrue(r.res)), r.b, <<"click_marker">> \o r.calls)

show_historical_dates(b, dates) ==
    IF b.page # "open" THEN Ret(VBool(FALSE), b, <<"show_historical_dates">>)
    ELSE Ret(dates, b, <<"show_historical_dates">>)

\* select_historical_date opens the date panel first when it is not open.
select_historical_date(b, panelOpen, dates, ok) ==
    IF b.page # "open" THEN Ret(VBool(FALSE), b, <<"select_historical_date">>)
    ELSE LET pre == IF panelOpen THEN <<>>
                    ELSE show_historical_dates(b, dates).calls
         IN  Ret(VBool(ok), b, <<"select_historical_date">> \o pre)

\* flip_view answering with the result of its second rotation alone.
flip_viewLastOnly(b, ok) ==
    IF b.page # "open" THEN Ret(VBool(FALSE), b, <<"flip_view">>)
    ELSE LET r1 == street_view_turn_right(b, ok[1])
             r2 == street_view_turn_right(r1.b, ok[2])
         IN  Ret(r2.res, r2.b, <<"flip_view">> \o r1.calls \o r2.calls)

\* flip_view: two clockwise rotations, the second issued whatever the first
\* returned.
flip_view(b, ok) ==
    IF b.page # "open" THEN Ret(VBool(FALSE), b, <<"flip_view">>)
    ELSE LET r1 == street_view_turn_right(b, ok[1])
             r2 == street_view_turn_right(r1.b, ok[2])
         IN  Ret(VBool(r1.res.v /\ r2.res.v), r2.b,
                 <<"flip_view">> \o r1.calls \o r2.calls)

\* move_left ending with a second advance in place of the turn back.
move_leftNoRestore(b, ok) ==
    IF b.page # "open" THEN Ret(VBool(FALSE), b, <<"move_left">>)
    ELSE LET r1 == street_view_turn_left(b, ok[1])
             r2 == street_view_move_forward(r1.b, ok[2])
             r3 == street_view_move_forward(r2.b, ok[3])
         IN  IF ~r1.res.v THEN Ret(VBool(FALSE), r1.b, <<"move_left">> \o r1.calls)
             ELSE IF ~r2.res.v
             THEN Ret(VBool(FALSE), r2.b, <<"move_left">> \o r1.calls \o r2.calls)
             ELSE Ret(r3.res, r3.b,
                      <<"move_left">> \o r1.calls \o r2.calls \o r3.calls)

\* move_left: turn left, advance, turn right; the first failure returns.
move_left(b, ok) ==
    IF b.page # "open" THEN Ret(VBool(FALSE), b, <<"move_left">>)
    ELSE LET r1 == street_view_turn_left(b, ok[1])
             r2 == street_view_move_forward(r1.b, ok[2])
             r3 == street_view_turn_right(r2.b, ok[3])
         IN  IF ~r1.res.v THEN Ret(VBool(FALSE), r1.b, <<"move_left">> \o r1.calls)
             ELSE IF ~r2.res.v
             THEN Ret(VBool(FALSE), r2.b, <<"move_left">> \o r1.calls \o r2.calls)
             ELSE Ret(r3.res, r3.b,
                      <<"move_left">> \o r1.calls \o r2.calls \o r3.calls)

\* move_right: turn right, advance, turn left; the first failure returns.
move_right(b, ok) ==
    IF b.page # "open" THEN Ret(VBool(FALSE), b, <<"move_right">>)
    ELSE LET r1 == street_view_turn_right(b, ok[1])
             r2 == street_view_move_forward(r1.b, ok[2])
             r3 == street_view_turn_left(r2.b, ok[3])
         IN  IF ~r1.res.v THEN Ret(VBool(FALSE), r1.b, <<"move_right">> \o r1.calls)
             ELSE IF ~r2.res.v
             THEN Ret(VBool(FALSE), r2.b, <<"move_right">> \o r1.calls \o r2.calls)
             ELSE Ret(r3.res, r3.b,
                      <<"move_right">> \o r1.calls \o r2.calls \o r3.calls)

\* GoogleMapsBrowser.back: one step back in the page's own history.
back(b, ok) ==
    IF b.page # "open" THEN Ret(VBool(FALSE), b, <<"back">>)
    ELSE IF ok THEN Ret(VBool(TRUE), [b EXCEPT !.loc = "previous"], <<"back">>)
    ELSE Ret(VBool(FALSE), b, <<"back">>)

scroll_up(b, ok) == OneShot("scroll_up", b, ok, FALSE)

scroll_down(b, ok) == OneShot("scroll_down", b, ok, FALSE)

\* get_url: the page's URL, "" without a page.
get_url(b) ==
    Ret(VStr(IF b.page = "none" THEN <<>> ELSE <<b.loc>>), b, <<"get_url">>)

\* init: launches the browser and opens a page, or raises.
init(b, raises) ==
    IF raises THEN Ret(VExc(<<"BrowserType.launch failed">>), b, <<"init">>)
    ELSE Ret(VNone, [b EXCEPT !.page = "open", !.loc = "blank"], <<"init">>)

\* close: closes the page when there is one; exceptions are logged.
close(b) ==
    Ret(VNone, [b EXCEPT !.page = IF @ = "open" THEN "closed" ELSE @],
        <<"close">>)

\* stop touches no page.
stop(b) == Ret(VBool(TRUE), b, <<"stop">>)

\* What the page answers during one call of act: ok[k] is whether the k-th
\* click or key press works, sv and dates are the answers to
\* enter_street_view and show_historical_dates, panelOpen whether the date
\* panel is open, gotoRaises whether page.goto raises.
AllOk == [k \in 1..3 |-> TRUE]

OkSeqs(n) == {s \in [1..3 -> BOOLEAN] : \A k \in 1..3 : k > n => s[k]}

Env(oks, svs, ds, panels, gotos) ==
    [ok : oks, sv : svs, dates : ds, panelOpen : panels, gotoRaises : gotos]

\* The answers that matter to one method; the others are held fixed.
Envs(name) ==
    CASE name \in {"click_id", "street_view_move_forward",
                   "street_view_move_backward", "street_view_turn_left",
                   "street_view_turn_right", "find_text_on_page",
                   "click_blank_area"}
           -> Env(OkSeqs(1), {VBool(TRUE)}, {VBool(FALSE)}, {TRUE}, {FALSE})
      [] name = "enter_street_view"
           -> Env({AllOk}, SvOutcomes, {VBool(FALSE)}, {TRUE}, {FALSE})
      [] name = "click_marker"
           -> Env(OkSeqs(1), SvOutcomes, {VBool(FALSE)}, {TRUE}, {FALSE})
      [] name = "show_historical_dates"
           -> Env({AllOk}, {VBool(TRUE)}, DateOutcomes, {TRUE}, {FALSE})
      [] name = "select_historical_date"
           -> Env(OkSeqs(1), {VBool(TRUE)}, {VBool(FALSE)}, BOOLEAN, {FALSE})
      [] name = "flip_view"
           -> Env(OkSeqs(2), {VBool(TRUE)}, {VBool(FALSE)}, {TRUE}, {FALSE})
      [] name \in {"move_left", "move_right"}
           -> Env(OkSeqs(3), {VBool(TRUE)}, {VBool(FALSE)}, {TRUE}, {FALSE})
      [] name = "back"
           -> Env({AllOk}, {VBool(TRUE)}, {VBool(FALSE)}, {TRUE}, BOOLEAN)
      [] OTHER
           -> Env({AllOk}, {VBool(TRUE)}, {VBool(FALSE)}, {TRUE}, {FALSE})

\* ------------------------------------------------------------------ act

Quotes == {"'", "\""}

\* Where the first chunk of s at or after position i that is in S stands,
\* or 0.
RECURSIVE FirstIn(_, _, _)
FirstIn(s, i, S) ==
    IF i > Len(s) THEN 0
    ELSE IF s[i] \in S THEN i
    ELSE FirstIn(s, i + 1, S)

\* re.match(r'(\w+)\(([^)]*)\)', action_code): a word, "(", anything but
\* ")", and ")", from the start of the string.
CallMatch(ac) ==
    /\ Len(ac) >= 3
    /\ IsWord(ac[1])
    /\ ac[2] = "("
    /\ FirstIn(ac, 3, {")"}) # 0

CallName(ac) == Strip(<<ac[1]>>)

CallArgs(ac) == Strip(SubSeq(ac, 3, FirstIn(ac, 3, {")"}) - 1))

\* re.match(r'[\'"]([^\'"]*)[\'"]', args_str)
QuotedMatch(a) ==
    /\ Len(a) >= 2
    /\ a[1] \in Quotes
    /\ FirstIn(a, 2, Quotes) # 0

QuotedText(a) == SubSeq(a, 2, FirstIn(a, 2, Quotes) - 1)

\* The argument value act derives from the text between the parentheses.
ArgValue(a) ==
    IF a = <<>> THEN VNone
    ELSE IF IsDigit(a) THEN VInt(DigitVal[a[1]])
    ELSE IF QuotedMatch(a) THEN VStr(QuotedText(a))
    ELSE IF IsIntLike(a) THEN VInt(IntVal[a[1]])
    ELSE VStr(a)

func_name(ac) == IF CallMatch(ac) THEN CallName(ac) ELSE ac

arg_value(ac) == IF CallMatch(ac) THEN ArgValue(CallArgs(ac)) ELSE VNone

\* `action_code.lower() in ["stop", "done", "exit"]`
IsStopWord(ac) == Lower(ac) \in {<<"stop">>, <<"done">>, <<"exit">>}

\* The check made against the browser's methods instead of the registry.
InRegistryHasAttr(fn) == Len(fn) = 1 /\ fn[1] \in BrowserMethods

\* `func_name not in GOOGLE_MAPS_ACTIONS`
InRegistry(fn) == Len(fn) = 1 /\ fn[1] \in GOOGLE_MAPS_ACTIONS

\* The registered methods that need an argument: calling one without it
\* raises TypeError before the method runs.
NeedsArg == {"click_id", "select_historical_date", "find_text_on_page",
             "click_marker"}

\* getattr(self.browser, name)() for the argument-less branch of act.
CallMethod(name, b, env) ==
    CASE name = "street_view_move_forward" -> street_view_move_forward(b, env.ok[1])
      [] name = "street_view_move_backward" -> street_view_move_backward(b, env.ok[1])
      [] name = "street_view_turn_left" -> street_view_turn_left(b, env.ok[1])
      [] name = "street_view_turn_right" -> street_view_turn_right(b, env.ok[1])
      [] name = "show_historical_dates" -> show_historical_dates(b, env.dates)
      [] name = "back" -> back(b, env.ok[1])
      [] name = "stop" -> stop(b)
      [] name = "click_blank_area" -> click_blank_area(b, env.ok[1])
      [] name = "flip_view" -> flip_view(b, env.ok)
      [] name = "move_left" -> move_left(b, env.ok)
      [] name = "move_right" -> move_right(b, env.ok)
      [] name = "scroll_up" -> scroll_up(b, env.ok[1])
      [] name = "scroll_down" -> scroll_down(b, env.ok[1])
      [] name = "get_url" -> get_url(b)
      [] name = "init" -> init(b, FALSE)
      [] name = "close" -> close(b)
      [] name \in NeedsArg \cup {"visit_page"} ->
           Ret(VExc(<<"missing 1 required positional argument">>), b, <<>>)
      [] OTHER -> Ret(VExc(<<"object has no attribute">>), b, <<>>)

ActRet(success, info, b, calls, arg) ==
    [success |-> success, result_info |-> info, b |-> b, calls |-> calls,
     arg |-> arg]

\* `action_func = getattr(self.browser, func_name)` and its call.
ActGetattr(name, b, env) ==
    LET r == CallMethod(name, b, env)
    IN  IF r.res.t = "exc"
        THEN ActRet(VBool(FALSE), r.res.v, r.b, r.calls, VNone)
        ELSE IF IsFalse(r.res)
        THEN ActRet(VBool(FALSE), <<"Executed action: ", name>>, r.b,
                    r.calls, VNone)
        ELSE ActRet(VBool(TRUE),
                    <<"Executed action: ", name, ":">> \o Format(r.res),
                    r.b, r.calls, VNone)

\* The argument dropped and the action executed without it.
ArgNotTakenDropped(name, arg, b, env) == ActGetattr(name, b, env)

\* The last branch of the argument dispatch: a registered action that takes
\* no argument was given one.
ArgNotTaken(name, arg, b, env) ==
    ActRet(VBool(FALSE), <<"Action ", name, " does not take arguments">>, b,
           <<>>, VNone)

\* The branch of act for a registered name with an argument.
ActWithArg(name, arg, b, env) ==
    CASE name = "click_id" ->
           LET r == click_id(b, env.ok[1])
           IN  ActRet(r.res, <<"Clicked ID: ">> \o Format(arg), r.b, r.calls, arg)
      [] name = "select_historical_date" ->
           LET r == select_historical_date(b, env.panelOpen, env.dates, env.ok[1])
           IN  ActRet(r.res, <<"Selected historical date: ">> \o Format(arg),
                      r.b, r.calls, arg)
      [] name = "find_text_on_page" ->
           LET r == find_text_on_page(b, env.ok[1])
           IN  ActRet(r.res, <<"Searched text: ">> \o Format(arg), r.b, r.calls, arg)
      [] name = "visit_page" ->
           LET r == visit_page(b, arg.v, env.gotoRaises)
           IN  IF r.res.t = "exc"
               THEN ActRet(VBool(FALSE), r.res.v, r.b, r.calls, arg)
               ELSE ActRet(VBool(TRUE), <<"Visited page: ">> \o Format(arg), r.b,
                           r.calls, arg)
      [] name = "click_marker" ->
           IF arg.t = "int"
           THEN LET r == click_marker(b, env.ok[1], env.sv)
                IN  ActRet(r.res, <<"Clicked marker #">> \o Format(arg), r.b,
                           r.calls, arg)
           ELSE ActRet(VBool(FALSE),
                       <<"Invalid argument for click_marker: ">> \o Format(arg),
                       b, <<>>, VNone)
      [] OTHER -> ArgNotTaken(name, arg, b, env)

\* back resolved like any other name, to GoogleMapsBrowser.back.
ActBackGoBack(name, start_url, b, env) == ActGetattr(name, b, env)

\* back: the start URL is visited again; success whatever visit_page did,
\* unless it raised.
ActBack(name, start_url, b, env) ==
    LET r == visit_page(b, start_url, env.gotoRaises)
    IN  IF r.res.t = "exc"
        THEN ActRet(VBool(FALSE), r.res.v, r.b, r.calls, VNone)
        ELSE ActRet(VBool(TRUE), <<"Executed action: ", name, ":", "True">>,
                    r.b, r.calls, VNone)

\* The result of enter_street_view judged by its truth value alone.
ActEnterStreetViewByTruth(name, b, env) ==
    LET r == enter_street_view(b, env.sv)
    IN  IF ~Truthy(r.res)
        THEN ActRet(VBool(FALSE), <<"Failed to enter street view">>, r.b,
                    r.calls, VNone)
        ELSE IF r.res.t = "list"
        THEN ActRet(VBool(TRUE),
                    <<"Found ">> \o Format(r.res) \o <<" visible markers">>,
                    r.b, r.calls, VNone)
        ELSE ActRet(r.res, <<"Entered street view">>, r.b, r.calls, VNone)

\* enter_street_view: a list is the marker list, anything else the outcome.
ActEnterStreetView(name, b, env) ==
    LET r == enter_street_view(b, env.sv)
    IN  IF r.res.t = "list"
        THEN ActRet(VBool(TRUE),
                    <<"Found ">> \o Format(r.res) \o <<" visible markers">>,
                    r.b, r.calls, VNone)
        ELSE ActRet(r.res,
                    IF Truthy(r.res) THEN <<"Entered street view">>
                    ELSE <<"Failed to enter street view">>,
                    r.b, r.calls, VNone)

\* The branch of act for a registered name without an argument.
ActNoArg(name, start_url, b, env) ==
    CASE name = "enter_street_view" -> ActEnterStreetView(name, b, env)
      [] name = "back" -> ActBack(name, start_url, b, env)
      [] OTHER -> ActGetattr(name, b, env)

\* The registry check of act and the dispatch after it.
Dispatch(fn, arg, start_url, b, env) ==
    IF ~InRegistry(fn)
    THEN ActRet(VBool(FALSE), <<"Invalid action: ">> \o fn, b, <<>>, VNone)
    ELSE IF arg.t # "none"
    THEN ActWithArg(fn[1], arg, b, env)
    ELSE ActNoArg(fn[1], start_url, b, env)

\* GoogleMapsAgent.act: (success, result_info), with the browser after it,
\* the GoogleMapsBrowser methods it called and the argument it passed.
act(action_code, start_url, b, env) ==
    LET ac == Strip(action_code)
    IN  IF IsStopWord(ac)
        THEN ActRet(VBool(TRUE), <<"Task completed">>, b, <<>>, VNone)
        ELSE Dispatch(func_name(ac), arg_value(ac), start_url, b, env)

\* The page answers act can meet for an action code.
ActEnvs(action_code) ==
    LET fn == func_name(Strip(action_code))
    IN  IF InRegistry(fn) THEN Envs(fn[1]) ELSE Envs("")

\* ----------------------------------------------------------- the oracle
\* What model.step returns is a JSON object (a dictionary), a JSON array, or
\* text that is no JSON.

Get(d, k, default) == IF k \in DOMAIN d THEN d[k] ELSE default

Decision(ac) ==
    [kind |-> "object",
     d |-> [observation |-> "obs", reasoning |-> "why", action_code |-> ac]]

Final(ac) ==
    [kind |-> "object",
     d |-> [observation |-> "obs", reasoning |-> "why", action_code |-> ac,
            answer |-> "ans"]]

Garbage == [kind |-> "garbage"]

Array == [kind |-> "array"]

Call0(name) == <<name, "(", ")">>

CallQ(name, text) == <<name, "(", "'", text, "'", ")">>

CallN(name, digits) == <<name, "(", digits, ")">>

\* The reply the oracle gives when it gives no other: get_url() is in the
\* catalog sent to the oracle and is no registered action.
Filler == Decision(Call0("get_url"))

\* The replies that end the loop at the step that receives them.
EndReplies ==
    {Final(<<"final_answer">>), Decision(<<"stop">>), Decision(<<"done">>),
     Decision(<<"exit">>), Decision(<<"Stop">>), Decision(Call0("stop"))}

\* The other replies; one run uses one of them.
Specials ==
    {Decision(CallN("click_marker", "0")),
     Decision(CallQ("click_marker", "0")),
     Decision(CallQ("click_id", "done_btn")),
     Decision(CallQ("click_id", "ok_btn")),
     Decision(CallQ("find_text_on_page", "bus stop")),
     Decision(CallN("select_historical_date", "2014")),
     Decision(Call0("enter_street_view")),
     Decision(Call0("street_view_turn_left")),
     Decision(Call0("street_view_move_forward")),
     Decision(Call0("show_historical_dates")),
     Decision(Call0("flip_view")),
     Decision(Call0("move_left")),
     Decision(Call0("move_right")),
     Decision(Call0("back")),
     Decision(<<"back">>),
     Decision(CallN("back", "1")),
     Decision(CallQ("flip_view", "x")),
     Decision(CallN("enter_street_view", "2")),
     Decision(Call0("click_id")),
     Decision(Call0("stop_now")),
     Decision(Call0("STOP")),
     Decision(Call0("done")),
     Decision(Call0("exit")),
     Decision(CallQ("visit_page", "https://maps.example/x")),
     Decision(Call0("close")),
     Decision(Call0("init")),
     Decision(Call0("scroll_up")),
     Decision(<<"street_view_turn_left", " ", "(", ")">>),
     Decision(<<>>),
     Final(<<"Final_Answer">>),
     Final(<<" ", "final_answer">>),
     Garbage,
     Array}

\* _parse_json_output by the kind of the reply: the object, the array, or
\* the error dictionary.  ParseReplyText below computes it on the text.
_parse_json_output(content) ==
    CASE content.kind = "object" -> [t |-> "dict", v |-> content.d]
      [] content.kind = "array" -> [t |-> "list", v |-> <<>>]
      [] OTHER -> [t |-> "dict",
                   v |-> [error |-> "Failed to parse JSON output"]]

\* ------------------------------------------------------------ the agent

VARIABLES
    pc,           \* where run_google_maps_task_api stands
    browser,      \* agent.browser
    history,      \* agent.history
    step,         \* the loop variable of run_task
    decision,     \* what observe returned to run_task
    request,      \* the history text of the last decision request
    lastAct,      \* what act returned and called, the browser before the
                  \* call and what the page answered during it
    answer,       \* what run_task returned
    synthPrompt,  \* the history text of the answer-synthesis request
    oracleCalls,  \* decision requests sent to the oracle
    synthCalls,   \* answer-synthesis requests sent to the oracle
    envCalls,     \* calls of GoogleMapsBrowser methods other than stop, by act
    err,          \* the call that raised an exception, or "none"
    decisions,    \* the action codes observe has returned, in order
    closeCalled,  \* whether agent.close() has been called
    special,      \* the special reply of this run
    free,         \* special replies given so far
    args,         \* the arguments of a function that is called on its own
    returned      \* what that function returned

vars == <<pc, browser, history, step, decision, request, lastAct, answer,
          synthPrompt, oracleCalls, synthCalls, envCalls, err, decisions,
          closeCalled, special, free, args, returned>>

\* No function has been called on its own.
NoCall == [t |-> "none"]

NoDecision == [observation |-> "", reasoning |-> "", action_code |-> <<>>]

NoEnv == [ok |-> AllOk, sv |-> VBool(TRUE), dates |-> VBool(FALSE),
          panelOpen |-> TRUE, gotoRaises |-> FALSE]

NoAct == [code |-> <<>>, success |-> FALSE, result_info |-> <<>>,
          calls |-> <<>>, arg |-> VNone, ran |-> FALSE,
          before |-> NewBrowser, env |-> NoEnv]

\* The state after GoogleMapsAgent() in run_google_maps_task_api.
Init ==
    /\ pc = "init"
    /\ browser = NewBrowser
    /\ history = <<>>
    /\ step = 0
    /\ decision = NoDecision
    /\ request = <<>>
    /\ lastAct = NoAct
    /\ answer = ""
    /\ synthPrompt = <<>>
    /\ oracleCalls = 0
    /\ synthCalls = 0
    /\ envCalls = 0
    /\ err = "none"
    /\ decisions = <<>>
    /\ closeCalled = FALSE
    /\ special \in Specials
    /\ free = 0
    /\ args = NoCall
    /\ returned = NoCall

\* run_task: self.browser.init(); an exception leaves run_task and
\* run_google_maps_task_api.
BrowserInit ==
    /\ pc = "init"
    /\ \E raises \in BOOLEAN :
         LET r == init(browser, raises)
         IN  /\ browser' = r.b
             /\ pc' = IF raises THEN "raised" ELSE "visit"
             /\ err' = IF raises THEN "init" ELSE err
    /\ UNCHANGED <<history, step, decision, request, lastAct, answer,
                   synthPrompt, oracleCalls, synthCalls, envCalls, decisions,
                   closeCalled, special, free>>
    /\ UNCHANGED <<args, returned>>

\* run_task: self.browser.visit_page(self.start_url).
VisitStart ==
    /\ pc = "visit"
    /\ \E raises \in BOOLEAN :
         LET r == visit_page(browser, StartUrl, raises)
         IN  /\ browser' = r.b
             /\ pc' = IF raises THEN "raised" ELSE "loop"
             /\ err' = IF raises THEN "visit" ELSE err
    /\ UNCHANGED <<history, step, decision, request, lastAct, answer,
                   synthPrompt, oracleCalls, synthCalls, envCalls, decisions,
                   closeCalled, special, free>>
    /\ UNCHANGED <<args, returned>>

\* The loop bound off by one: range(MAX_STEPS + 1).
LoopCondOffByOne(i) == i <= MAX_STEPS

\* `for step in range(MAX_STEPS)`
LoopCond(i) == i < MAX_STEPS

\* The line of observe with the result description on failures too.
ObserveLineWithDetail(rec) ==
    [step |-> rec.step, observation |-> rec.observation,
     action_code |-> rec.action_code,
     outcome |-> IF "success" \in DOMAIN rec /\ rec.success
                 THEN <<"success:">> \o rec.result_info
                 ELSE IF "result_info" \in DOMAIN rec
                 THEN <<"failure:">> \o rec.result_info
                 ELSE <<"failure">>]

\* One line of the history text of observe.
ObserveLine(rec) ==
    [step |-> rec.step, observation |-> rec.observation,
     action_code |-> rec.action_code,
     outcome |-> IF "success" \in DOMAIN rec /\ rec.success
                 THEN <<"success:">> \o rec.result_info
                 ELSE <<"failure">>]

\* The text built before the record of the step just taken is in the history.
history_textStale(h) ==
    [i \in 1..(IF h = <<>> THEN 0 ELSE Len(h) - 1) |-> ObserveLine(h[i])]

\* history_text of observe: one line for each record of self.history.
history_text(h) == [i \in DOMAIN h |-> ObserveLine(h[i])]

\* The line rendered from the presence of the success key, not its value.
FinalLineKeyOnly(rec) ==
    [step |-> rec.step, observation |-> rec.observation,
     action_code |-> rec.action_code,
     outcome |-> IF "success" \in DOMAIN rec THEN <<"success">>
                 ELSE <<"failure">>]

\* One line of the history text of _generate_final_answer.
FinalLine(rec) ==
    [step |-> rec.step, observation |-> rec.observation,
     action_code |-> rec.action_code,
     outcome |-> IF "success" \in DOMAIN rec /\ rec.success
                 THEN <<"success">>
                 ELSE <<"failure">>]

\* What observe returns for the content of the oracle's reply.
ObserveResult(content) ==
    LET resp == _parse_json_output(content)
    IN  IF resp.t # "dict" THEN NoDecision
        ELSE IF Lower(Get(resp.v, "action_code", <<>>)) = <<"final_answer">>
        THEN [observation |-> "",
              reasoning |-> Get(resp.v, "answer", ""),
              action_code |-> Strip(Get(resp.v, "action_code", <<>>))]
        ELSE [observation |-> Get(resp.v, "observation", ""),
              reasoning |-> Get(resp.v, "reasoning", ""),
              action_code |-> Strip(Get(resp.v, "action_code", <<>>))]

\* The replies the oracle may give now.
Replies ==
    {Filler} \cup EndReplies \cup (IF free < MaxFree THEN {special} ELSE {})

\* observe: without a page it answers stop; else the screenshot is taken,
\* the request built from the history and sent, and the reply parsed.  An
\* exception of page.screenshot or model.step leaves observe and run_task.
observe ==
    /\ pc = "loop"
    /\ LoopCond(step)
    /\ IF browser.page = "none"
       THEN /\ decision' = [observation |-> "", reasoning |-> "",
                            action_code |-> <<"stop">>]
            /\ decisions' = Append(decisions, <<"stop">>)
            /\ pc' = "decided"
            /\ UNCHANGED <<request, oracleCalls, err, free>>
       ELSE \/ /\ pc' = "raised"
               /\ err' = "screenshot"
               /\ UNCHANGED <<decision, decisions, request, oracleCalls, free>>
            \/ /\ request' = history_text(history)
               /\ oracleCalls' = oracleCalls + 1
               /\ \/ /\ pc' = "raised"
                     /\ err' = "oracle"
                     /\ UNCHANGED <<decision, decisions, free>>
                  \/ \E content \in Replies :
                       /\ decision' = ObserveResult(content)
                       /\ decisions' =
                            Append(decisions, ObserveResult(content).action_code)
                       /\ free' = IF content = special THEN free + 1 ELSE free
                       /\ pc' = "decided"
                       /\ err' = err
    /\ lastAct' = NoAct
    /\ UNCHANGED <<browser, history, step, answer, synthPrompt, synthCalls,
                   envCalls, closeCalled, special>>
    /\ UNCHANGED <<args, returned>>

\* The test of run_task made without regard to case, as observe makes it.
IsFinalAnswerAnyCase(ac) == Lower(ac) = <<"final_answer">>

\* `action_code == 'final_answer'`
IsFinalAnswer(ac) == ac = <<"final_answer">>

\* The stop test of run_task matching the word stop alone.
IsStopDecisionStopOnly(ac) == Lower(ac) = <<"stop">>

\* `action_code.lower() in ["stop", "exit", "done"]`
IsStopDecision(ac) == Lower(ac) \in {<<"stop">>, <<"exit">>, <<"done">>}

\* The completion test of run_task looking for "done" alone.
ResultEndsLoopDoneOnly(result_info) == Contains(Lower(result_info), "done")

\* `"stop" in result_info.lower() or "done" in result_info.lower()`
ResultEndsLoop(result_info) ==
    \/ Contains(Lower(result_info), "stop")
    \/ Contains(Lower(result_info), "done")

\* The record numbered from 1.
StepInfoOneBased ==
    [step |-> step + 1, observation |-> decision.observation,
     reasoning |-> decision.reasoning, action_code |-> decision.action_code]

\* step_info as run_task builds it before the stop test.
StepInfo ==
    [step |-> step, observation |-> decision.observation,
     reasoning |-> decision.reasoning, action_code |-> decision.action_code]

\* The loop variable starting over after the last value of the range.
NextStepWraps(i) == (i + 1) % MAX_STEPS

\* The value `for step in range(MAX_STEPS)` gives step after i.
NextStep(i) == i + 1

\* The calls of a call list that are not the no-op stop.
RECURSIVE CountEnv(_)
CountEnv(calls) ==
    IF calls = <<>> THEN 0
    ELSE (IF Head(calls) = "stop" THEN 0 ELSE 1) + CountEnv(Tail(calls))

\* The body of the loop of run_task after observe has returned.
RunStep ==
    /\ pc = "decided"
    /\ IF IsFinalAnswer(decision.action_code)
       THEN /\ answer' = decision.reasoning
            /\ pc' = "close"
            /\ UNCHANGED <<browser, history, step, lastAct, envCalls>>
       ELSE IF IsStopDecision(decision.action_code)
       THEN /\ history' = Append(history, StepInfo @@ [status |-> "stopped"])
            /\ pc' = "synth"
            /\ UNCHANGED <<browser, step, lastAct, answer, envCalls>>
       ELSE \E env \in ActEnvs(decision.action_code) :
              LET r == act(decision.action_code, StartUrl, browser, env)
              IN  /\ browser' = r.b
                  /\ lastAct' = [code |-> decision.action_code,
                                 success |-> r.success.v,
                                 result_info |-> r.result_info,
                                 calls |-> r.calls, arg |-> r.arg,
                                 ran |-> TRUE, before |-> browser,
                                 env |-> env]
                  /\ envCalls' = envCalls + CountEnv(r.calls)
                  /\ history' = Append(history,
                                       StepInfo @@ [success |-> r.success.v,
                                                    result_info |-> r.result_info])
                  /\ IF ResultEndsLoop(r.result_info)
                     THEN pc' = "synth" /\ step' = step
                     ELSE pc' = "loop" /\ step' = NextStep(step)
                  /\ answer' = answer
    /\ UNCHANGED <<decision, request, synthPrompt, oracleCalls, synthCalls,
                   err, decisions, closeCalled, special, free>>
    /\ UNCHANGED <<args, returned>>

\* The loop of run_task ends when range(MAX_STEPS) is used up.
LoopExit ==
    /\ pc = "loop"
    /\ ~LoopCond(step)
    /\ pc' = "synth"
    /\ UNCHANGED <<browser, history, step, decision, request, lastAct, answer,
                   synthPrompt, oracleCalls, synthCalls, envCalls, err,
                   decisions, closeCalled, special, free>>
    /\ UNCHANGED <<args, returned>>

\* _generate_final_answer: one oracle call on the rendered history; its text
\* is the answer, and a fixed text when the call raises.
_generate_final_answer ==
    /\ pc = "synth"
    /\ synthPrompt' = [i \in DOMAIN history |-> FinalLine(history[i])]
    /\ synthCalls' = synthCalls + 1
    /\ \E raises \in BOOLEAN :
         /\ answer' = IF raises THEN "Failed to complete the task" ELSE "synth"
         /\ err' = IF raises THEN "synth" ELSE err
    /\ pc' = "close"
    /\ UNCHANGED <<browser, history, step, decision, request, lastAct,
                   oracleCalls, envCalls, decisions, closeCalled, special, free>>
    /\ UNCHANGED <<args, returned>>

\* run_google_maps_task_api: agent.close() after run_task has returned.
agent_close ==
    /\ pc = "close"
    /\ browser' = close(browser).b
    /\ closeCalled' = TRUE
    /\ pc' = "returned"
    /\ UNCHANGED <<history, step, decision, request, lastAct, answer,
                   synthPrompt, oracleCalls, synthCalls, envCalls, err,
                   decisions, special, free>>
    /\ UNCHANGED <<args, returned>>

Next ==
    \/ BrowserInit
    \/ VisitStart
    \/ observe
    \/ RunStep
    \/ LoopExit
    \/ _generate_final_answer
    \/ agent_close

Spec == Init /\ [][Next]_vars

\* ------------------------------------------------- act, called directly
\* act is a public method of the agent.  Here it is called on an agent whose
\* run_task has stored the start URL and whose browser.init() has either
\* raised (no page) or returned and been followed by the first visit_page.

Started == [page |-> "open", heading |-> 0, loc |-> "start"]

ActCodes ==
    {Call0(n) : n \in GOOGLE_MAPS_ACTIONS \cup {"get_url"}} \cup
    {CallQ("click_id", "ok_btn"), CallN("click_marker", "0"),
     CallN("select_historical_date", "2014"),
     CallQ("find_text_on_page", "bus stop"), <<"back">>, CallN("back", "1"),
     CallQ("flip_view", "x"), CallN("enter_street_view", "2"),
     CallN("find_text_on_page", "2014")}

ActInit ==
    /\ pc = "act"
    /\ browser \in {NewBrowser, Started}
    /\ history = <<>>
    /\ step = 0
    /\ decision = NoDecision
    /\ request = <<>>
    /\ lastAct = NoAct
    /\ answer = ""
    /\ synthPrompt = <<>>
    /\ oracleCalls = 0
    /\ synthCalls = 0
    /\ envCalls = 0
    /\ err = "none"
    /\ decisions = <<>>
    /\ closeCalled = FALSE
    /\ special = Filler
    /\ free = 0
    /\ args = NoCall
    /\ returned = NoCall

\* One call of agent.act(action_code).
ActCall ==
    /\ pc = "act"
    /\ \E code \in ActCodes : \E env \in ActEnvs(code) :
         LET r == act(code, StartUrl, browser, env)
         IN  /\ browser' = r.b
             /\ lastAct' = [code |-> code, success |-> r.success.v,
                            result_info |-> r.result_info, calls |-> r.calls,
                            arg |-> r.arg, ran |-> TRUE, before |-> browser,
                            env |-> env]
    /\ UNCHANGED <<pc, history, step, decision, request, answer, synthPrompt,
                   oracleCalls, synthCalls, envCalls, err, decisions,
                   closeCalled, special, free>>
    /\ UNCHANGED <<args, returned>>

ActSpec == ActInit /\ [][ActCall]_vars

\* ---------------------------------------- _parse_json_output on reply text
\* The text of a reply is a sequence of chunks: a code fence, a row of three
\* double quotes, the word json, white space, a piece of prose, a brace, a
\* bracket, a comma, or the members of a JSON object between its braces.

\* The fence of three backquotes; a string here cannot hold a backquote.
Fence == "<fence>"

TripleQuotes == "\"\"\""

\* The members of four decision objects, as valid JSON.
KvStop ==
    "\"observation\": \"map\", \"reasoning\": \"why\", \"action_code\": \"stop\""

KvForward ==
    "\"observation\": \"map\", \"reasoning\": \"why\", \"action_code\": \"street_view_move_forward()\""

KvFinal == "\"action_code\": \"final_answer\", \"answer\": \"ans\""

KvColon ==
    "\"observation\": \"Marker2: ok\", \"reasoning\": \"why\", \"action_code\": \"flip_view()\""

\* The members of the first object with the keys left unquoted.
KvBare == "observation: \"map\", reasoning: \"why\", action_code: \"stop\""

\* What json.loads makes of the members of an object.
KvDict ==
    (KvStop :> [observation |-> "map", reasoning |-> "why",
                action_code |-> <<"stop">>]) @@
    (KvForward :> [observation |-> "map", reasoning |-> "why",
                   action_code |-> Call0("street_view_move_forward")]) @@
    (KvFinal :> [action_code |-> <<"final_answer">>, answer |-> "ans"]) @@
    (KvColon :> [observation |-> "Marker2: ok", reasoning |-> "why",
                 action_code |-> Call0("flip_view")])

ProseBefore == "Here is my decision:"

ProseAfter == "Let me know."

\* re.search(r'```(?:json)?\s*(.*?)\s*```', text, re.DOTALL), and the same
\* with three double quotes: the first fence, the word json when it follows
\* at once, and the first fence after them.
FenceOpen(text, fence) == FirstIn(text, 1, {fence})

FenceBody(text, fence) ==
    LET i == FenceOpen(text, fence)
    IN  IF i < Len(text) /\ text[i + 1] = "json" THEN i + 2 ELSE i + 1

FenceClose(text, fence) ==
    IF FenceOpen(text, fence) = 0 THEN 0
    ELSE FirstIn(text, FenceBody(text, fence), {fence})

FenceMatch(text, fence) == FenceClose(text, fence) # 0

\* `text = match.group(1).strip()` when the pattern matched.
Unfence(text, fence) ==
    IF FenceMatch(text, fence)
    THEN Strip(SubSeq(text, FenceBody(text, fence), FenceClose(text, fence) - 1))
    ELSE text

\* json.loads(text): white space between the tokens does not count; an
\* object, an array, or JSONDecodeError.
json_loads(text) ==
    LET s == SelectSeq(text, LAMBDA c : c \notin White)
    IN  IF Len(s) = 3 /\ s[1] = "{" /\ s[3] = "}" /\ s[2] \in DOMAIN KvDict
        THEN [t |-> "dict", v |-> KvDict[s[2]]]
        ELSE IF s = <<"[", "]">> THEN [t |-> "list", v |-> <<>>]
        ELSE [t |-> "exc", v |-> <<"JSONDecodeError">>]

\* Whether from position i on there is white space, then a closing brace or
\* bracket, then no brace or bracket up to the end.
RECURSIVE NoCloser(_, _)
NoCloser(text, i) ==
    i > Len(text) \/ (text[i] \notin {"}", "]"} /\ NoCloser(text, i + 1))

RECURSIVE CloserAt(_, _)
CloserAt(text, i) ==
    /\ i <= Len(text)
    /\ IF text[i] \in White THEN CloserAt(text, i + 1)
       ELSE text[i] \in {"}", "]"} /\ NoCloser(text, i + 1)

RECURSIVE TrailingFrom(_, _)
TrailingFrom(text, i) ==
    IF i > Len(text) THEN 0
    ELSE IF text[i] = "," /\ CloserAt(text, i + 1) THEN i
    ELSE TrailingFrom(text, i + 1)

\* re.sub(r',\s*[}\]][^\]}]*$', '', text)
DropTrailing(text) ==
    LET i == TrailingFrom(text, 1)
    IN  IF i = 0 THEN text ELSE SubSeq(text, 1, i - 1)

\* re.sub(r'(\w+):', r'"\1":', text) on one chunk: the chunks with a word
\* followed by a colon.
QuoteKeysChunk(c) ==
    CASE c = KvBare -> KvStop
      [] c = ProseBefore -> "Here is my \"decision\":"
      [] c = KvColon ->
           "\"observation\": \"\"Marker2\": ok\", \"reasoning\": \"why\", \"action_code\": \"flip_view()\""
      [] OTHER -> c

QuoteKeys(text) == [i \in DOMAIN text |-> QuoteKeysChunk(text[i])]

\* _parse_json_output on the text of a reply.
ParseReplyText(text) ==
    LET inner == Unfence(Unfence(text, Fence), TripleQuotes)
        first == json_loads(inner)
        second == json_loads(QuoteKeys(DropTrailing(inner)))
    IN  IF first.t # "exc" THEN first
        ELSE IF second.t # "exc" THEN second
        ELSE [t |-> "dict", v |-> [error |-> "Failed to parse JSON output"]]

\* The replies: an object or array, alone or embedded.
Object(kv) == <<"{", kv, "}">>

DecisionObjects == {Object(kv) : kv \in DOMAIN KvDict}

ReplyObjects ==
    DecisionObjects \cup
    {Object(KvBare), <<"{", KvStop, ",", "}">>, <<"[", "]">>}

Embed(form, obj) ==
    CASE form = "alone" -> obj
      [] form = "padded" -> <<" ", "\n">> \o obj \o <<"\n">>
      [] form = "prose before" -> <<ProseBefore, " ">> \o obj
      [] form = "prose after" -> obj \o <<"\n", ProseAfter>>
      [] form = "prose around" ->
           <<ProseBefore, "\n">> \o obj \o <<"\n", ProseAfter>>
      [] form = "fence" -> <<Fence, "\n">> \o obj \o <<"\n", Fence>>
      [] form = "fence json" ->
           <<Fence, "json", "\n">> \o obj \o <<"\n", Fence>>
      [] form = "fence tight" -> <<Fence>> \o obj \o <<Fence>>
      [] form = "fence json in prose" ->
           <<ProseBefore, "\n", Fence, "json", "\n">> \o obj \o
           <<"\n", Fence, "\n", ProseAfter>>
      [] form = "prose in fence" ->
           <<Fence, "json", "\n", ProseBefore, " ">> \o obj \o <<"\n", Fence>>
      [] form = "fence space json" ->
           <<Fence, " ", "json", "\n">> \o obj \o <<"\n", Fence>>
      [] form = "fence left open" -> <<Fence, "json", "\n">> \o obj
      [] form = "quotes" ->
           <<TripleQuotes, "\n">> \o obj \o <<"\n", TripleQuotes>>
      [] OTHER ->
           <<TripleQuotes, "json", "\n">> \o obj \o <<"\n", TripleQuotes>>

Forms ==
    {"alone", "padded", "prose before", "prose after", "prose around",
     "fence", "fence json", "fence tight", "fence json in prose",
     "prose in fence", "fence space json", "fence left open", "quotes",
     "quotes json"}

ParseInit ==
    /\ pc = "parse"
    /\ browser = NewBrowser
    /\ history = <<>>
    /\ step = 0
    /\ decision = NoDecision
    /\ request = <<>>
    /\ lastAct = NoAct
    /\ answer = ""
    /\ synthPrompt = <<>>
    /\ oracleCalls = 0
    /\ synthCalls = 0
    /\ envCalls = 0
    /\ err = "none"
    /\ decisions = <<>>
    /\ closeCalled = FALSE
    /\ special = Filler
    /\ free = 0
    /\ \E obj \in ReplyObjects, form \in Forms :
         args = [obj |-> obj, form |-> form, text |-> Embed(form, obj)]
    /\ returned = NoCall

\* One call of _parse_json_output(text).
ParseCall ==
    /\ pc = "parse"
    /\ returned' = ParseReplyText(args.text)
    /\ pc' = "parsed"
    /\ UNCHANGED <<browser, history, step, decision, request, lastAct, answer,
                   synthPrompt, oracleCalls, synthCalls, envCalls, err,
                   decisions, closeCalled, special, free, args>>

ParseSpec == ParseInit /\ [][ParseCall]_vars

\* ------------------------------------------------ generate_google_maps_url
\* A location string is a sequence of chunks: a number, a comma, a blank, a
\* parenthesis, one of the labels Lat: Lng: N S W E, or a word.  A float is
\* counted in millionths of a degree.

\* float(s) for the chunks float() takes; the others raise ValueError.
FloatVal ==
    ("40.7128" :> 40712800) @@ ("-74.0060" :> (0 - 74006000)) @@
    ("40.6892" :> 40689200) @@ ("-74.0445" :> (0 - 74044500)) @@
    ("40.7484" :> 40748400) @@ ("73.9857" :> 73985700) @@
    ("95.5" :> 95500000) @@ ("10.25" :> 10250000) @@
    ("-200.5" :> (0 - 200500000)) @@
    ("40" :> 40000000) @@ ("-74" :> (0 - 74000000))

\* The chunks -?\d+\.\d+ matches, and those \d+\.\d+ matches.
Decimals ==
    {"40.7128", "-74.0060", "40.6892", "-74.0445", "40.7484", "73.9857",
     "95.5", "10.25", "-200.5"}

Unsigned == {"40.7128", "40.6892", "40.7484", "73.9857", "95.5", "10.25"}

\* The text an f-string renders for a float (its repr).
FloatStr(x) ==
    CASE x = 40712800 -> "40.7128"
      [] x = 0 - 74006000 -> "-74.006"
      [] x = 40689200 -> "40.6892"
      [] x = 0 - 74044500 -> "-74.0445"
      [] x = 40748400 -> "40.7484"
      [] x = 0 - 40748400 -> "-40.7484"
      [] x = 73985700 -> "73.9857"
      [] x = 0 - 73985700 -> "-73.9857"
      [] x = 40000000 -> "40.0"
      [] x = 0 - 74000000 -> "-74.0"
      [] x = 48858370 -> "48.85837"
      [] x = 2294481 -> "2.294481"
      [] x = 10250000 -> "10.25"
      [] x = 95500000 -> "95.5"
      [] OTHER -> "-200.5"

\* urllib.parse.quote on one chunk.
QuoteChunk(c) ==
    CASE c = "," -> "%2C"
      [] c = " " -> "%20"
      [] c = "(" -> "%28"
      [] c = ")" -> "%29"
      [] c = "Lat:" -> "Lat%3A"
      [] c = "Lng:" -> "Lng%3A"
      [] OTHER -> c

quote(text) == [i \in DOMAIN text |-> QuoteChunk(text[i])]

_validate_coordinates(lat, lng) ==
    /\ 0 - 90000000 <= lat
    /\ lat <= 90000000
    /\ 0 - 180000000 <= lng
    /\ lng <= 180000000

\* The four patterns of _parse_coordinates_from_string: "dec" is
\* (-?\d+\.\d+), "udec" is (\d+\.\d+), "ns" is ([NS]), "we" is ([WE]), "ws"
\* is \s*, anything else is that text itself.
patterns ==
    << <<"dec", ",", "ws", "dec">>,
       <<"(", "dec", ",", "ws", "dec", ")">>,
       <<"Lat:", "ws", "dec", ",", "ws", "Lng:", "ws", "dec">>,
       <<"ns", "ws", "udec", ",", "ws", "we", "ws", "udec">> >>

Groups == {"dec", "udec", "ns", "we"}

Fits(item, c) ==
    CASE item = "dec" -> c \in Decimals
      [] item = "udec" -> c \in Unsigned
      [] item = "ns" -> c \in {"N", "S"}
      [] item = "we" -> c \in {"W", "E"}
      [] OTHER -> c = item

NoMatch == [ok |-> FALSE, groups |-> <<>>]

\* The groups of the match of pattern[k..] at text[i..].
RECURSIVE MatchFrom(_, _, _, _)
MatchFrom(text, i, pattern, k) ==
    IF k > Len(pattern) THEN [ok |-> TRUE, groups |-> <<>>]
    ELSE IF pattern[k] = "ws"
    THEN IF i <= Len(text) /\ text[i] \in White
         THEN MatchFrom(text, i + 1, pattern, k)
         ELSE MatchFrom(text, i, pattern, k + 1)
    ELSE IF i > Len(text) \/ ~Fits(pattern[k], text[i]) THEN NoMatch
    ELSE LET rest == MatchFrom(text, i + 1, pattern, k + 1)
         IN  IF ~rest.ok THEN NoMatch
             ELSE [ok |-> TRUE,
                   groups |-> (IF pattern[k] \in Groups THEN <<text[i]>>
                               ELSE <<>>) \o rest.groups]

\* re.search(pattern, input_str): the leftmost match.
RECURSIVE SearchFrom(_, _, _)
SearchFrom(text, i, pattern) ==
    IF i > Len(text) THEN NoMatch
    ELSE IF MatchFrom(text, i, pattern, 1).ok
    THEN MatchFrom(text, i, pattern, 1)
    ELSE SearchFrom(text, i + 1, pattern)

NoCoords == [found |-> FALSE, lat |-> 0, lng |-> 0]

\* The coordinates a match gives, when they are valid.
MatchCoords(m) ==
    LET g == m.groups
        two == Len(g) = 2
        lat == IF two THEN FloatVal[g[1]]
               ELSE IF g[1] = "N" THEN FloatVal[g[2]] ELSE 0 - FloatVal[g[2]]
        lng == IF two THEN FloatVal[g[2]]
               ELSE IF g[3] = "E" THEN FloatVal[g[4]] ELSE 0 - FloatVal[g[4]]
    IN  IF m.ok /\ _validate_coordinates(lat, lng)
        THEN [found |-> TRUE, lat |-> lat, lng |-> lng]
        ELSE NoCoords

\* _parse_coordinates_from_string: the first pattern whose leftmost match
\* gives valid coordinates.
RECURSIVE ParseFrom(_, _)
ParseFrom(input_str, n) ==
    IF n > Len(patterns) THEN NoCoords
    ELSE LET c == MatchCoords(SearchFrom(input_str, 1, patterns[n]))
         IN  IF c.found THEN c ELSE ParseFrom(input_str, n + 1)

_parse_coordinates_from_string(input_str) == ParseFrom(input_str, 1)

CoordinateBase == "https://www.google.com/maps?q="

SearchBase == "https://www.google.com/maps/search/?api=1&query="

\* f"https://www.google.com/maps?q={lat},{lng}&z={zoom}"
CoordinateUrl(lat, lng, zoom) ==
    [base |-> CoordinateBase, q |-> <<FloatStr(lat), ",", FloatStr(lng)>>,
     z |-> zoom]

\* location.split(",", 1) and float() of the two stripped parts.
SplitCoords(location) ==
    LET i == FirstIn(location, 1, {","})
        lat == Strip(SubSeq(location, 1, i - 1))
        lng == Strip(SubSeq(location, i + 1, Len(location)))
    IN  IF /\ Len(lat) = 1 /\ lat[1] \in DOMAIN FloatVal
           /\ Len(lng) = 1 /\ lng[1] \in DOMAIN FloatVal
           /\ _validate_coordinates(FloatVal[lat[1]], FloatVal[lng[1]])
        THEN [found |-> TRUE, lat |-> FloatVal[lat[1]], lng |-> FloatVal[lng[1]]]
        ELSE NoCoords

\* The string branch of generate_google_maps_url.
StringUrl(location, zoom, parse_text_coordinates) ==
    LET coords == _parse_coordinates_from_string(location)
        split == SplitCoords(location)
    IN  IF parse_text_coordinates /\ coords.found
        THEN CoordinateUrl(coords.lat, coords.lng, zoom)
        ELSE IF FirstIn(location, 1, {","}) # 0 /\ split.found
        THEN CoordinateUrl(split.lat, split.lng, zoom)
        ELSE [base |-> SearchBase, q |-> quote(location)]

generate_google_maps_url(location, zoom, parse_text_coordinates) ==
    IF location.t = "tuple" /\ _validate_coordinates(location.v[1], location.v[2])
    THEN CoordinateUrl(location.v[1], location.v[2], zoom)
    ELSE IF location.t = "str"
    THEN StringUrl(location.v, zoom, parse_text_coordinates)
    ELSE [base |-> "https://www.google.com/maps"]

VTuple(lat, lng) == [t |-> "tuple", v |-> <<lat, lng>>]

CoordinateString == <<"40.7128", ",", "-74.0060">>

Locations ==
    {VStr(CoordinateString),
     VStr(<<"40.7128", ",", " ", "-74.0060">>),
     VStr(<<"(", "40.7128", ",", " ", "-74.0060", ")">>),
     VStr(<<"Lat:", " ", "40.6892", ",", " ", "Lng:", " ", "-74.0445">>),
     VStr(<<"Meet", " ", "Lat:", " ", "40.6892", ",", " ", "Lng:", " ",
            "-74.0445", " ", "(", "Liberty", ")">>),
     VStr(<<"N", " ", "40.7484", ",", " ", "W", " ", "73.9857">>),
     VStr(<<"S", " ", "40.7484", ",", " ", "E", " ", "73.9857">>),
     VStr(<<"Eiffel", " ", "Tower", ",", " ", "Paris">>),
     VStr(<<"Statue", " ", "of", " ", "Liberty">>),
     VStr(<<"95.5", ",", "10.25">>),
     VStr(<<"40", ",", "-74">>),
     VStr(<<"40.7128", ",", "-200.5">>),
     VStr(<<"Meet", " ", "at", " ", "40.7128", ",", "-74.0060">>),
     VStr(<<"95.5", ",", "10.25", " ", "(", "40.7128", ",", " ", "-74.0060",
            ")">>),
     VStr(<<"40.7128", ",", "abc">>),
     VTuple(48858370, 2294481),
     VTuple(95500000, 10250000)}

Zooms == {0, 15, 20}

UrlInit ==
    /\ pc = "generate"
    /\ browser = NewBrowser
    /\ history = <<>>
    /\ step = 0
    /\ decision = NoDecision
    /\ request = <<>>
    /\ lastAct = NoAct
    /\ answer = ""
    /\ synthPrompt = <<>>
    /\ oracleCalls = 0
    /\ synthCalls = 0
    /\ envCalls = 0
    /\ err = "none"
    /\ decisions = <<>>
    /\ closeCalled = FALSE
    /\ special = Filler
    /\ free = 0
    /\ \E location \in Locations, zoom \in Zooms, flag \in BOOLEAN :
         args = [location |-> location, zoom |-> zoom,
                 parse_text_coordinates |-> flag]
    /\ returned = NoCall

\* One call of generate_google_maps_url.
UrlCall ==
    /\ pc = "generate"
    /\ returned' = generate_google_maps_url(args.location, args.zoom,
                                             args.parse_text_coordinates)
    /\ pc' = "generated"
    /\ UNCHANGED <<browser, history, step, decision, request, lastAct, answer,
                   synthPrompt, oracleCalls, synthCalls, envCalls, err,
                   decisions, closeCalled, special, free, args>>

UrlSpec == UrlInit /\ [][UrlCall]_vars

\* ------------------------------------------------------------ the claims

Finished == pc \in {"returned", "raised"}

\* The name act parses from an action code is a registered action.
Registered(ac) ==
    LET fn == func_name(Strip(ac))
    IN  Len(fn) = 1 /\ fn[1] \in GOOGLE_MAPS_ACTIONS

LastRecord == history[Len(history)]

\* The last record of the history is the one the last call of act wrote.
LastIsAct ==
    /\ history # <<>>
    /\ lastAct.ran
    /\ "success" \in DOMAIN LastRecord
    /\ LastRecord.action_code = lastAct.code

\* C1: in a run that starts with an empty history, the history never holds
\* more than MAX_STEPS = 15 records.
C1_StepBudget == Len(history) <= MAX_STEPS

C1_Witness == Len(history) = MAX_STEPS /\ pc = "returned"

TerminationDecided ==
    \/ decision.action_code = <<"final_answer">>
    \/ Lower(decision.action_code) \in {<<"stop">>, <<"done">>, <<"exit">>}

\* C3: once the decision is a termination, no browser method that touches
\* the page is called and no further decision request is sent; and a run in
\* which the oracle answers click_marker(0) and then stop ends with exactly
\* 2 records.
C3_NothingAfterTermination ==
    /\ [][TerminationDecided =>
            /\ envCalls' = envCalls
            /\ oracleCalls' = oracleCalls
            /\ lastAct' = lastAct
            /\ TerminationDecided']_vars
    /\ [](pc = "returned"
            /\ decisions = <<CallN("click_marker", "0"), <<"stop">>>>
          => Len(history) = 2)

C3_Witness ==
    /\ pc = "returned"
    /\ decisions = <<CallN("click_marker", "0"), <<"stop">>>>
    /\ Len(history) = 2
    /\ envCalls >= 1

\* C4: when run_google_maps_task_api has been left, by any exit,
\* GoogleMapsBrowser.close has been called.
C4_ClosedOnEveryExit == Finished => closeCalled

\* C5: when browser.init or the first visit_page fails, run_task returns a
\* failure answer and does not raise, with no record and no oracle call.
C5_InitFailureReturnsAnswer ==
    err \in {"init", "visit"} =>
        /\ pc # "raised"
        /\ Finished => answer # ""
        /\ history = <<>>
        /\ oracleCalls = 0

\* C6: when the decision call to the oracle fails, it is retried within the
\* step, and when every attempt fails run_task returns a failure answer and
\* does not raise.
C6_OracleFailureReturnsAnswer ==
    err = "oracle" =>
        /\ pc # "raised"
        /\ Finished => answer # ""

\* No record of the history names a registered action.
AllUnregistered ==
    \A i \in DOMAIN history : ~Registered(history[i].action_code)

\* C7: after 15 steps without a termination decision run_task makes exactly
\* one more oracle call, whose prompt renders all 15 records, and returns
\* the text of that call when it gives one; when all 15 steps named an
\* unregistered action, all 15 lines say failure.
C7_BudgetSynthesis ==
    (Len(history) = MAX_STEPS /\ ~TerminationDecided
       /\ pc \in {"close", "returned"}) =>
        /\ oracleCalls = MAX_STEPS
        /\ synthCalls = 1
        /\ Len(synthPrompt) = MAX_STEPS
        /\ \A i \in 1..MAX_STEPS :
               /\ synthPrompt[i].step = i - 1
               /\ synthPrompt[i].action_code = history[i].action_code
               /\ synthPrompt[i].outcome = <<"success">> => history[i].success
        /\ err # "synth" => answer = "synth"
        /\ AllUnregistered =>
               \A i \in 1..MAX_STEPS : synthPrompt[i].outcome = <<"failure">>

C7_Witness ==
    /\ step = MAX_STEPS
    /\ pc = "returned"
    /\ AllUnregistered
    /\ answer = "synth"
    /\ Len(synthPrompt) = MAX_STEPS

\* C8: a step whose action code names no registered action is recorded with
\* success false, and the loop goes on unless the budget is used up.
C8_DispatchFailureContinues ==
    (LastIsAct /\ ~Registered(LastRecord.action_code)) =>
        /\ ~LastRecord.success
        /\ pc \in {"loop", "decided"} \/ Len(history) = MAX_STEPS

\* C9: when a registered action is dispatched and the browser fails, act
\* returns (False, detail), the record holds that detail, and the loop goes
\* on unless the budget is used up.
C9_ExecutionFailureContinues ==
    (LastIsAct /\ Registered(lastAct.code) /\ lastAct.calls # <<>>
       /\ ~lastAct.success) =>
        /\ ~LastRecord.success
        /\ LastRecord.result_info = lastAct.result_info
        /\ pc # "raised"
        /\ pc \in {"loop", "decided"} \/ Len(history) = MAX_STEPS

\* The last record of the history is a stop decision, bare or as a call.
LastIsStop ==
    /\ history # <<>>
    /\ LastRecord.action_code \in {<<"stop">>, Call0("stop")}

\* C10, as stated: a stop decision, bare or as stop(), ends the loop at that
\* step with no call of any GoogleMapsBrowser method.
C10_StopCallsNothing ==
    LastIsStop =>
        /\ pc \notin {"loop", "decided"}
        /\ lastAct.calls = <<>>

\* C10, amended: a stop decision, bare or as stop(), ends the loop at that
\* step; the bare word calls no GoogleMapsBrowser method, and stop() calls
\* GoogleMapsBrowser.stop alone, which leaves the browser as it was.
C10_StopEndsLoop ==
    LastIsStop =>
        /\ pc \notin {"loop", "decided"}
        /\ step = Len(history) - 1
        /\ "success" \in DOMAIN LastRecord =>
               /\ LastRecord.action_code = Call0("stop")
               /\ lastAct.code = Call0("stop")
               /\ lastAct.calls = <<"stop">>
        /\ "status" \in DOMAIN LastRecord =>
               /\ LastRecord.action_code = <<"stop">>
               /\ ~lastAct.ran
               /\ lastAct.calls = <<>>

C10_Witness ==
    /\ LastIsStop
    /\ LastRecord.action_code = Call0("stop")
    /\ Len(history) = MAX_STEPS
    /\ lastAct.calls = <<"stop">>
    /\ pc = "returned"

\* C11: in a run that starts with an empty history, the k-th record appended
\* (counting from 0) has step index k: the indices are 0, 1, 2, ... with no
\* gap and no repeat, whether the steps succeeded, failed or were invalid.
C11_StepIndices ==
    \A k \in DOMAIN history : history[k].step = k - 1

C11_Witness ==
    /\ pc = "returned"
    /\ Len(history) = MAX_STEPS
    /\ \E i \in DOMAIN history :
          /\ i > 1
          /\ Registered(history[i].action_code)
          /\ "success" \in DOMAIN history[i]
          /\ ~history[i].success
    /\ ~Registered(history[1].action_code)
    /\ "status" \in DOMAIN LastRecord

\* How often a browser method stands in a call list.
Issued(calls, name) == Cardinality({i \in DOMAIN calls : calls[i] = name})

\* The clockwise angle from the heading before the last call of act to the
\* heading after it.
Turned == (browser.heading + 360 - lastAct.before.heading) % 360

LateralMoves == {Call0("move_left"), Call0("move_right")}

\* C12: with the heading counted modulo 360 in steps of 90 (turn_left -90,
\* turn_right +90), whenever move_left or move_right returns success the
\* heading after the call is the heading before it, and exactly one advance
\* was performed.
C12_LateralMoveRestoresHeading ==
    (lastAct.ran /\ lastAct.code \in LateralMoves /\ lastAct.success) =>
        /\ browser.heading = lastAct.before.heading
        /\ Issued(lastAct.calls, "street_view_move_forward") = 1
        /\ Issued(lastAct.calls, "street_view_turn_left") = 1
        /\ Issued(lastAct.calls, "street_view_turn_right") = 1
        /\ lastAct.env.ok[2]

C12_Witness ==
    /\ lastAct.ran
    /\ lastAct.code = Call0("move_left")
    /\ lastAct.success
    /\ lastAct.before.heading = 90
    /\ browser.heading = 90
    /\ lastAct.calls = <<"move_left", "street_view_turn_left",
                         "street_view_move_forward", "street_view_turn_right">>

\* C13: flip_view returns success if and only if both of its clockwise
\* rotations succeeded, and whenever it returns success the heading is the
\* heading before the call plus 180 modulo 360.
C13_FlipView ==
    (lastAct.ran /\ lastAct.code = Call0("flip_view")) =>
        /\ lastAct.success <=>
               /\ lastAct.before.page = "open"
               /\ lastAct.env.ok[1]
               /\ lastAct.env.ok[2]
        /\ lastAct.success <=> Turned = 180
        /\ lastAct.success =>
               browser.heading = (lastAct.before.heading + 180) % 360

C13_Witness ==
    /\ lastAct.ran
    /\ lastAct.code = Call0("flip_view")
    /\ lastAct.success
    /\ lastAct.before.heading = 270
    /\ browser.heading = 90

\* The forms that embed the object in prose or in a code fence.
EmbeddedForms ==
    {"prose before", "prose after", "prose around", "fence", "fence json"}

\* C14: for any decision object, _parse_json_output gives the same
\* dictionary for a reply that embeds the object in surrounding prose, or in
\* a ``` or ```json code fence, as for a reply that holds the object alone.
C14_EmbeddedParsesAlike ==
    (pc = "parsed" /\ args.obj \in DecisionObjects
       /\ args.form \in EmbeddedForms) =>
        /\ returned.t = "dict"
        /\ ParseReplyText(args.obj).t = "dict"
        /\ returned.v = ParseReplyText(args.obj).v

\* The name act parses from an action code is advertised in the catalog.
Advertised(ac) ==
    LET fn == func_name(Strip(ac))
    IN  Len(fn) = 1 /\ fn[1] \in GOOGLE_MAPS_ACTIONS_PROMPT

\* C15: act accepts twelve zero-argument actions, get_url among them, and
\* four single-argument actions; a name passes the registry check of act if
\* and only if the catalog sent to the oracle advertises it.
C15_VocabularyExact ==
    /\ Cardinality(GOOGLE_MAPS_ACTIONS \ NeedsArg) = 12
    /\ Cardinality(GOOGLE_MAPS_ACTIONS \cap NeedsArg) = 4
    /\ lastAct.ran =>
           /\ Advertised(lastAct.code) <=>
                  lastAct.result_info # <<"Invalid action: ">>
                                          \o func_name(Strip(lastAct.code))
           /\ lastAct.code = Call0("get_url") =>
                  lastAct.calls = <<"get_url">>

\* The last call of act was a lateral move whose first rotation worked and
\* whose advance failed.
AdvanceFailed ==
    /\ LastIsAct
    /\ lastAct.code \in LateralMoves
    /\ lastAct.before.page = "open"
    /\ lastAct.env.ok[1]
    /\ ~lastAct.env.ok[2]

\* What act returns for the same call when the first rotation fails.
FirstRotationFails ==
    act(lastAct.code, StartUrl, lastAct.before,
        [lastAct.env EXCEPT !.ok = [k \in 1..3 |-> FALSE]])

\* C16: when the advance in the middle of move_left or move_right fails, the
\* step is recorded as a failure, the heading stays rotated by 90 degrees,
\* and the recorded result description differs from the one recorded when
\* the first rotation fails and the heading is unchanged.
C16_AdvanceFailureVisible ==
    AdvanceFailed =>
        /\ ~LastRecord.success
        /\ Turned = IF lastAct.code = Call0("move_left") THEN 270 ELSE 90
        /\ FirstRotationFails.b.heading = lastAct.before.heading
        /\ LastRecord.result_info # FirstRotationFails.result_info

\* The primitives of a composite action, in the order it issues them.
Primitives(ac) ==
    CASE ac = Call0("move_left") ->
           <<"street_view_turn_left", "street_view_move_forward",
             "street_view_turn_right">>
      [] ac = Call0("move_right") ->
           <<"street_view_turn_right", "street_view_move_forward",
             "street_view_turn_left">>
      [] ac = Call0("flip_view") ->
           <<"street_view_turn_right", "street_view_turn_right">>
      [] OTHER -> <<>>

\* The heading change of the first n primitives of a composite action.
RECURSIVE TurnOf(_, _)
TurnOf(prims, n) ==
    IF n = 0 THEN 0
    ELSE (TurnOf(prims, n - 1)
          + (CASE prims[n] = "street_view_turn_left" -> 270
               [] prims[n] = "street_view_turn_right" -> 90
               [] OTHER -> 0)) % 360

\* C18: in move_left, move_right and flip_view, when the k-th primitive
\* fails, the composite returns failure, the primitives issued are the first
\* k and no later one, and the heading is the one the first k-1 reached.
C18_NoPrimitiveAfterFailure ==
    \A k \in 1..3 :
        (/\ lastAct.ran
         /\ lastAct.before.page = "open"
         /\ k <= Len(Primitives(lastAct.code))
         /\ \A j \in 1..(k - 1) : lastAct.env.ok[j]
         /\ ~lastAct.env.ok[k]) =>
            /\ ~lastAct.success
            /\ Tail(lastAct.calls) = SubSeq(Primitives(lastAct.code), 1, k)
            /\ Turned = TurnOf(Primitives(lastAct.code), k - 1)

BackCodes == {Call0("back"), <<"back">>}

C20_NoPageNoSuccess ==
    (/\ lastAct.ran
     /\ lastAct.before.page = "none"
     /\ Registered(lastAct.code)
     /\ func_name(Strip(lastAct.code)) # <<"stop">>) =>
        /\ ~lastAct.success
        /\ lastAct.result_info # <<>>
        /\ browser = lastAct.before

\* C17: with parse_text_coordinates false, generate_google_maps_url takes a
\* string that looks like coordinates, such as '40.7128,-74.0060', as a text
\* description and returns the search URL; a string gets a coordinate URL
\* only when parse_text_coordinates is true.
C17_TextWhenNotParsing ==
    (pc = "generated" /\ args.location.t = "str"
       /\ ~args.parse_text_coordinates) =>
        /\ returned.base = SearchBase
        /\ returned.q = quote(args.location.v)

\* The registered actions whose browser method takes no argument.
TakesNoArgument ==
    GOOGLE_MAPS_ACTIONS \ {"click_id", "select_historical_date",
                           "find_text_on_page", "click_marker"}

\* The action code is a call of a registered argument-less action with
\* something between its parentheses.
ArgumentSupplied(ac) ==
    /\ CallMatch(ac)
    /\ Registered(ac)
    /\ CallName(ac)[1] \in TakesNoArgument
    /\ CallArgs(ac) # <<>>

\* C21: when the oracle gives an argument to a registered action that takes
\* none (back(1), flip_view('x'), enter_street_view(2)), act returns failure,
\* calls no browser method, and the step's record says success = false.
C21_ArgumentRejected ==
    (lastAct.ran /\ ArgumentSupplied(lastAct.code)) =>
        /\ ~lastAct.success
        /\ lastAct.calls = <<>>
        /\ lastAct.result_info =
             <<"Action ", CallName(lastAct.code)[1], " does not take arguments">>
        /\ LastIsAct
        /\ LastRecord.success = FALSE

C21_Witness ==
    /\ lastAct.ran
    /\ lastAct.code \in {CallQ("flip_view", "x"), CallN("enter_street_view", "2")}
    /\ LastIsAct
    /\ ~LastRecord.success
    /\ pc = "loop"

\* The action code is a call whose argument text is digits only.
DigitArgument(ac) == CallMatch(ac) /\ IsDigit(CallArgs(ac))

\* C22: a digit-only argument becomes an integer only for click_marker; for
\* select_historical_date and find_text_on_page a digit-only argument such
\* as 2014 reaches the browser method as a string.
C22_DigitsTypedByAction ==
    (lastAct.ran /\ DigitArgument(lastAct.code) /\ lastAct.arg.t # "none") =>
        /\ CallName(lastAct.code) = <<"click_marker">> => lastAct.arg.t = "int"
        /\ CallName(lastAct.code) \in
             {<<"select_historical_date">>, <<"find_text_on_page">>} =>
               lastAct.arg.t = "str"

\* The action code observe returned spells final_answer, in any case.
NamesFinalAnswer == Lower(decision.action_code) = <<"final_answer">>

\* C23: when the parsed payload names final_answer, in any spelling observe
\* or run_task recognises, run_task returns exactly the payload's answer
\* field, appends no record for that step and executes no action.
C23_FinalAnswerShortCircuits ==
    (pc \in {"loop", "synth", "close", "returned"} /\ NamesFinalAnswer) =>
        /\ pc \in {"close", "returned"}
        /\ answer = "ans"
        /\ ~lastAct.ran
        /\ Len(history) = Len(decisions) - 1

\* C24: the events of a run are strictly ordered.  The decision request of
\* step k+1 is built after the record of step k was appended: when a decision
\* has been received at step k, its request holds one line for each of the
\* steps 0..k-1, in order, each with the action code decided at that step.
\* At most one decided step is without its record, and its browser calls
\* are over before the next request is sent.
C24_StrictOrder ==
    /\ Len(decisions) - Len(history) \in {0, 1}
    /\ pc = "decided" =>
         /\ ~lastAct.ran
         /\ Len(decisions) = Len(history) + 1
         /\ Len(request) = step
         /\ Len(history) = step
         /\ \A i \in DOMAIN request :
              /\ request[i].step = i - 1
              /\ request[i].action_code = decisions[i]

C24_Witness ==
    /\ pc = "decided"
    /\ step = 3
    /\ oracleCalls = 4
    /\ Len(request) = 3
    /\ request[3].action_code = CallN("click_marker", "0")

\* What browser.enter_street_view returned to the last call of act.
StreetViewResult == enter_street_view(lastAct.before, lastAct.env.sv).res

\* C25: for enter_street_view act branches on the type of the result.  A list,
\* empty or not, is the candidate list: the step is a success and the result
\* description shows the candidates.  A boolean is the success of the step.
C25_StreetViewByType ==
    (lastAct.ran /\ lastAct.code = Call0("enter_street_view")) =>
        /\ LastIsAct
        /\ LastRecord.success = lastAct.success
        /\ StreetViewResult.t = "list" =>
             /\ lastAct.success
             /\ lastAct.result_info =
                  <<"Found ", "[">> \o StreetViewResult.v \o
                  <<"]", " visible markers">>
        /\ StreetViewResult.t = "bool" =>
             lastAct.success = StreetViewResult.v

C25_Witness ==
    /\ lastAct.ran
    /\ lastAct.code = Call0("enter_street_view")
    /\ StreetViewResult = VList(<<>>)
    /\ LastIsAct
    /\ LastRecord.success
    /\ LastRecord.result_info = <<"Found ", "[", "]", " visible markers">>

\* ------------------------------------------- run_task called once more
\* GoogleMapsAgent is a class of the module and run_task a method of it: a
\* caller that keeps the agent can call run_task on it again after it has
\* returned.  The first call is the one of Spec with an oracle that answers
\* get_url() or ends the run.

\* The number of run_task calls on one agent.
MaxRuns == 2

\* The longest history a call is given by the calls before it.
MaxKept == 2

\* The call in progress: `args` holds which one it is.
Run == IF args = NoCall THEN 1 ELSE args.run

\* The state after GoogleMapsAgent().
RerunInit ==
    /\ pc = "init"
    /\ browser = NewBrowser
    /\ history = <<>>
    /\ step = 0
    /\ decision = NoDecision
    /\ request = <<>>
    /\ lastAct = NoAct
    /\ answer = ""
    /\ synthPrompt = <<>>
    /\ oracleCalls = 0
    /\ synthCalls = 0
    /\ envCalls = 0
    /\ err = "none"
    /\ decisions = <<>>
    /\ closeCalled = FALSE
    /\ special = Filler
    /\ free = 0
    /\ args = NoCall
    /\ returned = NoCall

\* run_task is called again on the agent: its locals are new, self.start_url
\* is assigned, and self.history and self.browser are what the call before
\* left.
run_task_again ==
    /\ pc = "close"
    /\ Run < MaxRuns
    /\ Len(history) <= MaxKept
    /\ args' = [t |-> "run_task", run |-> Run + 1]
    /\ pc' = "init"
    /\ step' = 0
    /\ decision' = NoDecision
    /\ request' = <<>>
    /\ lastAct' = NoAct
    /\ answer' = ""
    /\ synthPrompt' = <<>>
    /\ oracleCalls' = 0
    /\ synthCalls' = 0
    /\ envCalls' = 0
    /\ decisions' = <<>>
    /\ free' = 0
    /\ err' = "none"
    /\ UNCHANGED <<browser, history, closeCalled, special, returned>>

RerunNext ==
    \/ Next
    \/ run_task_again

RerunSpec == RerunInit /\ [][RerunNext]_vars

\* C26: at the start of every run_task call on an agent, a second call on
\* the same agent included, the history is empty, and the first decision
\* request of the call renders no record.
C26_HistoryEmptyAtStart ==
    /\ pc \in {"init", "visit"} => history = <<>>
    /\ (pc = "decided" /\ step = 0) => request = <<>>

\* The decision is one the loop of run_task is meant to end on.
EndsByDecision ==
    \/ decision.action_code = <<"final_answer">>
    \/ Lower(decision.action_code) \in {<<"stop">>, <<"done">>, <<"exit">>}
    \/ decision.action_code = Call0("stop")

\* C27: run_task leaves the loop before its 15 steps are used up only when
\* the decision of that step was final_answer, stop, done, exit or stop(); a
\* step of any other action, registered or not, never ends the loop, whatever
\* its result description says.
C27_OnlyTerminationsEndLoop ==
    (pc \in {"synth", "close", "returned"} /\ step < MAX_STEPS) =>
        EndsByDecision

\* C28: in one run the oracle is asked for a decision at most MAX_STEPS = 15
\* times and for the answer synthesis at most once; no synthesis request is
\* sent before the loop has ended, exactly one has been sent when run_task
\* returns after a stop decision or after the budget is used up, and none
\* when it returns on final_answer.
C28_OracleCallBudget ==
    /\ oracleCalls <= MAX_STEPS
    /\ synthCalls <= 1
    /\ pc \in {"init", "visit", "loop", "decided", "synth"} => synthCalls = 0
    /\ pc \in {"close", "returned"} =>
         synthCalls = IF decision.action_code = <<"final_answer">> THEN 0 ELSE 1

C28_Witness ==
    /\ pc = "returned"
    /\ step = MAX_STEPS
    /\ oracleCalls = MAX_STEPS
    /\ synthCalls = 1

\* C29: in the history of a decision request a record with success = true is
\* shown with its result description; a record with success = false, and a
\* stopped record, which has no success flag, is shown as failure alone.  The
\* history of the answer synthesis shows success or failure and no result
\* description for any record.
C29_HistoryRendering ==
    /\ Len(request) <= Len(history)
    /\ \A i \in DOMAIN request :
         /\ ("success" \in DOMAIN history[i] /\ history[i].success) =>
              request[i].outcome = <<"success:">> \o history[i].result_info
         /\ ("success" \in DOMAIN history[i] /\ ~history[i].success) =>
              request[i].outcome = <<"failure">>
         /\ "success" \notin DOMAIN history[i] =>
              /\ history[i].status = "stopped"
              /\ request[i].outcome = <<"failure">>
    /\ Len(synthPrompt) <= Len(history)
    /\ \A i \in DOMAIN synthPrompt :
         synthPrompt[i].outcome =
           IF "success" \in DOMAIN history[i] /\ history[i].success
           THEN <<"success">> ELSE <<"failure">>

C29_Witness ==
    /\ pc = "close"
    /\ Len(history) = 3
    /\ "success" \in DOMAIN history[1]
    /\ ~history[1].success
    /\ "success" \notin DOMAIN history[2]
    /\ "success" \in DOMAIN history[3]
    /\ history[3].success
    /\ Len(request) = 2
    /\ request[1].outcome = <<"failure">>
    /\ request[2].outcome = <<"failure">>
    /\ Len(synthPrompt) = 3
    /\ synthPrompt[3].outcome = <<"success">>

\* ------------------------------------------------------------ termination
\* run_task is one coroutine: when the call it awaits has returned or raised,
\* the event loop resumes it, so a step that can be taken is taken.

LiveSpec == RerunInit /\ [][Next]_vars /\ WF_vars(Next)

\* C30: when every oracle call and every browser call returns, run_task
\* returns an answer.  The loop variable never exceeds MAX_STEPS = 15 and is
\* never set back, and every run that is not left by an exception reaches
\* the return of run_google_maps_task_api with the answer set: the answer of
\* final_answer or the synthesised one.
C30_RunReturns ==
    /\ [](step <= MAX_STEPS)
    /\ [][step' >= step]_vars
    /\ <>(pc = "raised" \/ (pc = "returned" /\ answer # ""))

C30_Witness ==
    /\ pc = "returned"
    /\ err = "none"
    /\ step = MAX_STEPS
    /\ answer = "synth"

====
